---------------------------- MODULE Spec2Model ----------------------------
(***************************************************************************)
(* A model of the Tiki product loader (src/etl_tiki_to_postgres.py):       *)
(* file discovery, per-file validation, chunked upserts inside one         *)
(* transaction per file, and the exit status of the process.               *)
(*                                                                         *)
(* The database is modelled by two copies of its tables: `committed` (what *)
(* a new connection would see) and `work` (what the loader's open          *)
(* transaction sees).  conn.commit() copies work to committed and          *)
(* conn.rollback() copies committed to work.                               *)
(***************************************************************************)
EXTENDS Integers, Sequences, FiniteSets, TLC

(* ------------------------------ bounds --------------------------------- *)

\* files in the scanned directory
MaxFiles == 2
\* JSON items over all the files of one run
MaxItems == 3
\* main: batch_size (1000 in the source), scaled down
BatchSize == 2
\* items of the sequence given to chunks() when it is run on its own (SpecChunks)
MaxSeqLen == 5
\* chunk sizes given to chunks() when it is run on its own (SpecChunks)
MaxChunkSize == 5

\* rows of the sequence given to the product upsert run on its own (SpecPaging)
MaxRows == 3
\* chunk sizes and page sizes given to it there
MaxPageSize == 3

(* ------------------------- generic helpers ----------------------------- *)

Min(a, b) == IF a < b THEN a ELSE b

\* Python's seq[i:j] for 0 <= i <= j: the slice is clamped to the sequence
Slice(seq, i, j) == SubSeq(seq, i + 1, Min(j, Len(seq)))

\* i, i + step, i + 2 step, ... below n
RECURSIVE RangeFrom(_, _, _)
RangeFrom(i, n, step) ==
    IF i >= n THEN << >> ELSE <<i>> \o RangeFrom(i + step, n, step)

\* Python's range(0, n, step) for step > 0
PyRange(n, step) == RangeFrom(0, n, step)

\* chunks with an off-by-one slice: seq[i : i + size - 1]
ChunksDropLast(seq, size) ==
    [k \in 1..Len(PyRange(Len(seq), size)) |->
        Slice(seq, PyRange(Len(seq), size)[k],
                   PyRange(Len(seq), size)[k] + size - 1)]

\* chunks(seq, size): the slices seq[i : i + size] for i in range(0, len(seq), size)
chunks(seq, size) ==
    [k \in 1..Len(PyRange(Len(seq), size)) |->
        Slice(seq, PyRange(Len(seq), size)[k],
                   PyRange(Len(seq), size)[k] + size)]

(* --------------------------- the input files --------------------------- *)

\* The variable part of the names products_<...>.json, as digit strings, in
\* the order the directory happens to list them.
NamePool == << <<2>>, <<1, 0>>, <<1>>, <<1, 1>> >>

\* an ordering by numeric value instead: the shorter digit string first
PathLessNumeric(a, b) ==
    \/ Len(a) < Len(b)
    \/ /\ Len(a) = Len(b)
       /\ \E k \in 1..Len(a) :
            /\ \A j \in 1..(k - 1) : a[j] = b[j]
            /\ a[k] < b[k]

\* The order sorted() puts two paths in: lexicographic on the characters.
PathLess(a, b) ==
    \E k \in 1..(Min(Len(a), Len(b)) + 1) :
        /\ \A j \in 1..(k - 1) : a[j] = b[j]
        /\ \/ k > Len(a) /\ k <= Len(b)
           \/ k <= Len(a) /\ k <= Len(b) /\ a[k] < b[k]

\* sorted(S) as a sequence
RECURSIVE Sorted(_)
Sorted(S) ==
    IF S = {} THEN << >>
    ELSE LET m == CHOOSE x \in S : \A y \in S \ {x} : PathLess(x, y)
         IN  <<m>> \o Sorted(S \ {m})

\* What load_products_from_file can find a file to be
FileKinds == {"ok", "unreadable", "malformed", "notlist"}

\* JSON values this model gives the field "id": an integer, a string of
\* digits, a string that is no number, and no field at all (None)
IdInt(n) == [t |-> "int", n |-> n]
IdNumStr(n) == [t |-> "numstr", n |-> n]
IdBadStr == [t |-> "badstr", n |-> 0]
IdNone == [t |-> "none", n |-> 0]

\* an entry of an "images" list: a string (possibly empty) or null
Url(s) == [t |-> "str", s |-> s]
UrlNull == [t |-> "null", s |-> ""]

\* the field "images": a list, absent, or null
ImgList(seq) == [t |-> "list", v |-> seq]
ImgAbsent == [t |-> "absent", v |-> << >>]
ImgNull == [t |-> "null", v |-> << >>]

\* One JSON object. name, url_key, price and description are all read with
\* item.get and passed through; the inputs give the four the same value.
Item(id, v, imgs) ==
    [id |-> id, name |-> v, url_key |-> v, price |-> v, description |-> v,
     images |-> imgs]

\* The JSON objects the input files are made of: product 1 in two versions
\* (two images around a falsy entry; only falsy entries), product 2 with its
\* id as a string and an empty images list, and two objects with no usable id
Items ==
    { Item(IdInt(1), "a", ImgList(<<Url("u1"), Url(""), Url("u2")>>)),
      Item(IdInt(1), "b", ImgList(<<UrlNull, Url("")>>)),
      Item(IdNumStr(2), "a", ImgList(<< >>)),
      Item(IdBadStr, "a", ImgList(<<Url("u1")>>)),
      Item(IdNone, "a", ImgAbsent) }

(* --------------------------- record validation ------------------------- *)

\* int(item.get("id")): [ok, v]. int() of an integer or of a string of digits
\* is the number; of None or of any other string it raises.
IntCoerce(raw) ==
    IF raw.t \in {"int", "numstr"} THEN [ok |-> TRUE, v |-> raw.n]
    ELSE [ok |-> FALSE, v |-> 0]

\* item.get("images", []): the default only when the field is absent
GetImages(item) ==
    IF item.images.t = "absent" THEN ImgList(<< >>) ELSE item.images

\* Python's truth value of an entry of the images list
Truthy(url) == url.t = "str" /\ url.s # ""

\* str(url), for the entries that are truthy
Str(url) == url.s

\* the tuple appended to product_rows (main, line 223)
ProductRow(item, fname) ==
    [id |-> IntCoerce(item.id).v, name |-> item.name, url_key |-> item.url_key,
     price |-> item.price, description |-> item.description,
     images |-> GetImages(item), source_file |-> fname]

\* image rows that renumber the entries kept: the position counts only the
\* truthy entries before it
RECURSIVE ImageRowsRenumbered(_, _, _)
ImageRowsRenumbered(pid, imgs, n) ==
    IF n = 0 THEN << >>
    ELSE LET before == ImageRowsRenumbered(pid, imgs, n - 1)
         IN  IF Truthy(imgs[n])
             THEN Append(before, [product_id |-> pid, position |-> Len(before),
                                  image_url |-> Str(imgs[n])])
             ELSE before

\* the tuples appended to image_rows for the first n entries of one images
\* list (main, lines 226-228): enumerate() counts every entry
RECURSIVE ImageRowsOf(_, _, _)
ImageRowsOf(pid, imgs, n) ==
    IF n = 0 THEN << >>
    ELSE LET before == ImageRowsOf(pid, imgs, n - 1)
         IN  IF Truthy(imgs[n])
             THEN Append(before, [product_id |-> pid, position |-> n - 1,
                                  image_url |-> Str(imgs[n])])
             ELSE before

\* the loop with `break` for `continue`: it stops at the first item it rejects
RECURSIVE ValidateStopAtBad(_, _, _, _)
ValidateStopAtBad(items, n, fname, norm) ==
    IF n = 0 THEN [product_rows |-> << >>, image_rows |-> << >>, bad_items |-> 0]
    ELSE LET acc == ValidateStopAtBad(items, n - 1, fname, norm)
             item == items[n]
             imgs == GetImages(item)
         IN  IF acc.bad_items > 0 THEN acc
             ELSE IF ~IntCoerce(item.id).ok
             THEN [acc EXCEPT !.bad_items = @ + 1]
             ELSE [acc EXCEPT
                     !.product_rows = Append(@, ProductRow(item, fname)),
                     !.image_rows =
                        IF norm /\ imgs.t = "list"
                        THEN @ \o ImageRowsOf(IntCoerce(item.id).v, imgs.v,
                                              Len(imgs.v))
                        ELSE @]

\* the loop `for item in products` (main, lines 210-228) over the first n
\* items: [product_rows, image_rows, bad_items]
RECURSIVE Validate(_, _, _, _)
Validate(items, n, fname, norm) ==
    IF n = 0 THEN [product_rows |-> << >>, image_rows |-> << >>, bad_items |-> 0]
    ELSE LET acc == Validate(items, n - 1, fname, norm)
             item == items[n]
             imgs == GetImages(item)
         IN  IF ~IntCoerce(item.id).ok
             THEN [acc EXCEPT !.bad_items = @ + 1]
             ELSE [acc EXCEPT
                     !.product_rows = Append(@, ProductRow(item, fname)),
                     !.image_rows =
                        IF norm /\ imgs.t = "list"
                        THEN @ \o ImageRowsOf(IntCoerce(item.id).v, imgs.v,
                                              Len(imgs.v))
                        ELSE @]

(* ------------------------------ the tables ----------------------------- *)

\* upsert_products' page_size default (2000) against batch_size (1000)
ProductPageSize == 2 * BatchSize
\* the size of an image chunk: batch_size * 2 (main, line 238)
ImageBatchSize == BatchSize * 2
\* upsert_images' page_size default (5000) against batch_size (1000)
ImagePageSize == 5 * BatchSize

\* the stored row an INSERT of `row` at time t makes
StoredRow(row, t) ==
    [id |-> row.id, name |-> row.name, url_key |-> row.url_key,
     price |-> row.price, description |-> row.description,
     images |-> row.images, source_file |-> row.source_file,
     ingested_at |-> t]

\* ON CONFLICT (id) DO UPDATE SET images = tiki_products.images ||
\* EXCLUDED.images: the new list is appended to the stored one
UpsertProductRowAppendImages(table, row, t) ==
    IF \E r \in table : r.id = row.id
    THEN {IF r.id = row.id
          THEN [StoredRow(row, t) EXCEPT
                  !.images = IF r.images.t = "list" /\ row.images.t = "list"
                             THEN ImgList(r.images.v \o row.images.v)
                             ELSE row.images]
          ELSE r : r \in table}
    ELSE table \cup {StoredRow(row, t)}

\* INSERT ... ON CONFLICT (id) DO NOTHING: the stored row is kept
InsertProductRowDoNothing(table, row, t) ==
    IF \E r \in table : r.id = row.id THEN table
    ELSE table \cup {StoredRow(row, t)}

\* INSERT ... ON CONFLICT (id) DO UPDATE SET ... of one row (lines 122-133)
UpsertProductRow(table, row, t) ==
    IF \E r \in table : r.id = row.id
    THEN {IF r.id = row.id THEN StoredRow(row, t) ELSE r : r \in table}
    ELSE table \cup {StoredRow(row, t)}

RECURSIVE ApplyProductRows(_, _, _, _)
\* the rows of one statement applied in order
ApplyProductRows(table, page, n, t) ==
    IF n = 0 THEN table
    ELSE UpsertProductRow(ApplyProductRows(table, page, n - 1, t), page[n], t)

\* PostgreSQL rejects an INSERT ... ON CONFLICT DO UPDATE that would affect
\* one row twice: two rows of the statement with the same id
ProductStmtFails(page) ==
    \E i, j \in 1..Len(page) : i < j /\ page[i].id = page[j].id

\* execute_values: one statement per page of page_size rows, in order; the
\* first statement that fails raises. [ok, table, stmts]
RECURSIVE ExecProductPages(_, _, _, _)
ExecProductPages(table, pages, n, t) ==
    IF n = 0 THEN [ok |-> TRUE, table |-> table, stmts |-> 0]
    ELSE LET before == ExecProductPages(table, pages, n - 1, t)
         IN  IF ~before.ok THEN before
             ELSE IF ProductStmtFails(pages[n])
             THEN [before EXCEPT !.ok = FALSE, !.stmts = @ + 1]
             ELSE [ok |-> TRUE,
                   table |-> ApplyProductRows(before.table, pages[n],
                                              Len(pages[n]), t),
                   stmts |-> before.stmts + 1]

\* upsert_products(cur, rows, page_size) on the tables db at time t:
\* [ok, db, stmts]
upsert_products_paged(db, rows, t, page_size) ==
    LET r == ExecProductPages(db.products, chunks(rows, page_size),
                              Len(chunks(rows, page_size)), t)
    IN  [ok |-> r.ok, db |-> [db EXCEPT !.products = r.table],
         stmts |-> r.stmts]

\* upsert_products(cur, rows), as main calls it: page_size has its default
upsert_products(db, rows, t) ==
    upsert_products_paged(db, rows, t, ProductPageSize)

\* DELETE FROM tiki_product_images WHERE product_id = ANY(ids)
DeleteImages(table, ids) == {r \in table : r.product_id \notin ids}

\* INSERT ... ON CONFLICT (product_id, position) DO UPDATE of one row
UpsertImageRow(table, row) ==
    IF \E r \in table : r.product_id = row.product_id /\ r.position = row.position
    THEN {IF r.product_id = row.product_id /\ r.position = row.position
          THEN row ELSE r : r \in table}
    ELSE table \cup {row}

RECURSIVE ApplyImageRows(_, _, _)
\* the rows of one statement applied in order
ApplyImageRows(table, page, n) ==
    IF n = 0 THEN table
    ELSE UpsertImageRow(ApplyImageRows(table, page, n - 1), page[n])

\* The insert fails when two rows of the statement have the same
\* (product_id, position), or when a row's product_id is no stored product
\* (REFERENCES tiki_products(id))
ImageStmtFails(db, page) ==
    \/ \E i, j \in 1..Len(page) :
         /\ i < j
         /\ page[i].product_id = page[j].product_id
         /\ page[i].position = page[j].position
    \/ \E i \in 1..Len(page) :
         \A p \in db.products : p.id # page[i].product_id

RECURSIVE ExecImagePages(_, _, _)
\* execute_values for the image insert: [ok, db, stmts]
ExecImagePages(db, pages, n) ==
    IF n = 0 THEN [ok |-> TRUE, db |-> db, stmts |-> 0]
    ELSE LET before == ExecImagePages(db, pages, n - 1)
         IN  IF ~before.ok THEN before
             ELSE IF ImageStmtFails(before.db, pages[n])
             THEN [before EXCEPT !.ok = FALSE, !.stmts = @ + 1]
             ELSE [ok |-> TRUE,
                   db |-> [before.db EXCEPT
                             !.images = ApplyImageRows(@, pages[n], Len(pages[n]))],
                   stmts |-> before.stmts + 1]

\* the ids whose image rows upsert_images deletes: those of the batch
BatchProductIds(rows) == {rows[k].product_id : k \in 1..Len(rows)}

\* upsert_images(cur, image_rows) on the tables db: [ok, db, stmts]
upsert_images(db, rows) ==
    LET ids == BatchProductIds(rows)
        cleared == IF ids # {}
                   THEN [db EXCEPT !.images = DeleteImages(@, ids)]
                   ELSE db
        r == ExecImagePages(cleared, chunks(rows, ImagePageSize),
                            Len(chunks(rows, ImagePageSize)))
    IN  [ok |-> r.ok, db |-> r.db,
         stmts |-> r.stmts + (IF ids # {} THEN 1 ELSE 0)]

(* ------------------------------ the state ------------------------------ *)

VARIABLES
    dataPath,         \* what data_dir is: "missing", "file" or "dir"
    fs,               \* file name -> [kind, items]: the files under data_dir
    normalize_images, \* main's normalize_images
    pc,               \* where main is
    files,            \* main's files: the sorted list of file names
    fi,               \* index in files of the file being processed (0: none yet)
    products,         \* main's products: the decoded items of the current file
    product_rows,     \* main's product_rows
    image_rows,       \* main's image_rows
    bad_items,        \* main's bad_items
    ci,               \* index of the next chunk of the current chunk loop
    work,             \* the tables as the open transaction sees them
    committed,        \* the tables as committed
    now,              \* the database's now(): the start time of the transaction
    total_products,   \* main's total_products
    total_images,     \* main's total_images
    exitCode,         \* the process exit status (-1 while running)
    cause,            \* how the run ended
    outcome,          \* per file of `files`: what became of it
    stmts,            \* statements issued on the cursor after table creation
    initial,          \* the committed tables when the run started
    cIn,              \* chunks run on its own: its arguments
    cOut,             \* chunks run on its own: its result
    conns,            \* database connections opened so far (line 183)
    reports,          \* times the line "Done. products=..." was printed
    run,              \* which run of the program over these files this is
    uIn,              \* the product upsert run on its own: its arguments
    uOut              \* the product upsert run on its own: its results

vars == <<dataPath, fs, normalize_images, pc, files, fi, products,
          product_rows, image_rows, bad_items, ci, work, committed, now,
          total_products, total_images, exitCode, cause, outcome, stmts,
          initial, cIn, cOut, conns, reports, run, uIn, uOut>>

inputVars == <<dataPath, fs, normalize_images, initial, cIn, cOut, run, uIn,
               uOut>>
fileVars == <<products, product_rows, image_rows, bad_items, ci>>
totalVars == <<total_products, total_images>>
dbVars == <<work, committed, now>>
traceVars == <<conns, reports>>

EmptyDB == [products |-> {}, images |-> {}]

\* the row an earlier run left for product 1, loaded from products_0.json
SeedRow ==
    [id |-> 1, name |-> "old", url_key |-> "old", price |-> "old",
     description |-> "old",
     images |-> ImgList(<<Url("u0"), Url("u1")>>), source_file |-> <<0>>]

\* The tables an earlier run with normalize_images set has left: product 1
\* and its two image rows
SeededDB ==
    [products |-> {[id |-> SeedRow.id, name |-> SeedRow.name,
                    url_key |-> SeedRow.url_key, price |-> SeedRow.price,
                    description |-> SeedRow.description,
                    images |-> SeedRow.images,
                    source_file |-> SeedRow.source_file, ingested_at |-> 0]},
     images |-> {[product_id |-> 1, position |-> 0, image_url |-> "u0"],
                 [product_id |-> 1, position |-> 1, image_url |-> "u1"]}]

NoChunkInput == [seq |-> << >>, size |-> 0]

\* a chunk size (main's batch_size) with a page size (upsert_products'
\* page_size)
Sizes(c, p) == [chunk |-> c, page |-> p]

NoUpsertInput == [rows |-> << >>, a |-> Sizes(0, 0), b |-> Sizes(0, 0)]

(* ------------------------------- Init ---------------------------------- *)

\* the files of a directory holding k files: the items of `all` dealt out in
\* order, file j taking all[cut[j-1]+1 .. cut[j]]
FilesOf(k, all, cut) ==
    [nm \in {NamePool[j] : j \in 1..k} |->
        LET j == CHOOSE x \in 1..k : NamePool[x] = nm
            lo == IF j = 1 THEN 0 ELSE cut[j - 1]
        IN  SubSeq(all, lo + 1, cut[j])]

\* The state when main starts: the input files (each a JSON array of items
\* of `universe`), the setting of normalize_images (one of `norms`), and the
\* tables an earlier run has left.
InitFrom(universe, norms) ==
    /\ \E k \in 0..MaxFiles, n \in 0..MaxItems :
         \E all \in [1..n -> universe], cut \in [1..k -> 0..n] :
            /\ k = 0 => n = 0
            /\ k > 0 => cut[k] = n
            /\ \A j \in 2..k : cut[j - 1] <= cut[j]
            /\ fs = FilesOf(k, all, cut)
            /\ dataPath \in (IF k = 0 THEN {"missing", "dir"}
                             ELSE IF k = 1 THEN {"file", "dir"} ELSE {"dir"})
    /\ normalize_images \in norms
    /\ pc = "start"
    /\ files = << >>
    /\ fi = 0
    /\ products = << >>
    /\ product_rows = << >>
    /\ image_rows = << >>
    /\ bad_items = 0
    /\ ci = 0
    /\ work = SeededDB
    /\ committed = SeededDB
    /\ initial = SeededDB
    /\ now = 1
    /\ total_products = 0
    /\ total_images = 0
    /\ exitCode = -1
    /\ cause = "running"
    /\ outcome = << >>
    /\ stmts = 0
    /\ cIn = NoChunkInput
    /\ cOut = << >>
    /\ conns = 0
    /\ reports = 0
    /\ run = 1
    /\ uIn = NoUpsertInput
    /\ uOut = << >>

\* files made of Items, with normalize_images set or not
Init == InitFrom(Items, BOOLEAN)

(* ------------------------------ actions -------------------------------- *)

\* conn.commit(): the tables of the transaction become the committed ones
Commit(db) == db

\* a rollback that keeps what the transaction wrote
RollbackKeepsWrites(tx, saved) == tx

\* conn.rollback(): the transaction's tables are the committed ones again
Rollback(tx, saved) == saved

\* __main__ with KeyboardInterrupt handled like the input errors
SystemExitCodeInterruptAsInput(exc) ==
    CASE exc = "FileNotFoundError" -> 2
      [] exc \in {"ValueError", "RuntimeError", "KeyboardInterrupt"} -> 2
      [] OTHER -> 4

\* __main__, lines 260-271: the exit status for an exception main raises
SystemExitCode(exc) ==
    CASE exc = "FileNotFoundError" -> 2
      [] exc \in {"ValueError", "RuntimeError"} -> 2
      [] exc = "KeyboardInterrupt" -> 130
      [] OTHER -> 4

\* raise SystemExit(code), line 259 (code is what main returned) and lines
\* 262-271 (code is SystemExitCode of what main raised)
Exit(code, why) ==
    /\ pc' = "exit"
    /\ exitCode' = code
    /\ cause' = why

\* iter_product_files without lines 78-83: a directory with no matching file
\* gives an empty list
iter_product_files_empty_ok ==
    IF dataPath = "missing" THEN [ok |-> FALSE, files |-> << >>]
    ELSE IF dataPath = "file"
    THEN [ok |-> TRUE, files |-> <<CHOOSE nm \in DOMAIN fs : TRUE>>]
    ELSE [ok |-> TRUE, files |-> Sorted(DOMAIN fs)]

\* iter_product_files(data_path): [ok, files]
iter_product_files ==
    IF dataPath = "missing" THEN [ok |-> FALSE, files |-> << >>]
    ELSE IF dataPath = "file"
    THEN [ok |-> TRUE, files |-> <<CHOOSE nm \in DOMAIN fs : TRUE>>]
    ELSE IF DOMAIN fs = {} THEN [ok |-> FALSE, files |-> << >>]
    ELSE [ok |-> TRUE, files |-> Sorted(DOMAIN fs)]

\* main, line 174: files = iter_product_files(data_dir); FileNotFoundError
\* reaches __main__, which exits 2
Discover ==
    /\ pc = "start"
    /\ IF iter_product_files.ok
       THEN /\ files' = iter_product_files.files
            /\ outcome' = [k \in 1..Len(iter_product_files.files) |-> "pending"]
            /\ pc' = "config"
            /\ UNCHANGED <<exitCode, cause>>
       ELSE /\ Exit(SystemExitCode("FileNotFoundError"), "path")
            /\ UNCHANGED <<files, outcome>>
    /\ UNCHANGED <<inputVars, traceVars, fi, fileVars, dbVars, totalVars,
                   stmts>>

\* main, line 177: load_config; whatever it raises reaches __main__'s last
\* handler, which exits 4
LoadConfig ==
    /\ pc = "config"
    /\ \/ /\ pc' = "connect"
          /\ UNCHANGED <<exitCode, cause>>
       \/ Exit(SystemExitCode("Exception"), "other")
    /\ UNCHANGED <<inputVars, traceVars, files, fi, fileVars, dbVars,
                   totalVars, outcome,
                   stmts>>

\* main, line 183: connect(db_params); OperationalError is caught at line 248
Connect ==
    /\ pc = "connect"
    /\ \/ /\ pc' = "ddl"
          /\ conns' = conns + 1
          /\ UNCHANGED <<exitCode, cause>>
       \/ /\ Exit(3, "connect")
          /\ UNCHANGED conns
    /\ UNCHANGED <<inputVars, reports, files, fi, fileVars, dbVars, totalVars,
                   outcome, stmts>>

\* table creation without the handler for InsufficientPrivilege: the exception
\* leaves `with conn` (a rollback) and reaches __main__'s last handler
CreateTablesDeniedUnhandled ==
    /\ pc = "ddl"
    /\ \/ /\ committed' = Commit(work)
          /\ work' = work
          /\ pc' = "loop"
          /\ UNCHANGED <<exitCode, cause>>
       \/ /\ work' = Rollback(work, committed)
          /\ committed' = committed
          /\ Exit(SystemExitCode("Exception"), "privilege")
    /\ now' = now + 1
    /\ UNCHANGED <<inputVars, traceVars, files, fi, fileVars, totalVars,
                   outcome, stmts>>

\* main, lines 187-200: CREATE TABLE IF NOT EXISTS and commit, or
\* InsufficientPrivilege, rollback and return 3. Leaving `with conn` on a
\* return commits what the transaction holds.
CreateTables ==
    /\ pc = "ddl"
    /\ \/ /\ committed' = Commit(work)
          /\ work' = work
          /\ pc' = "loop"
          /\ UNCHANGED <<exitCode, cause>>
       \/ /\ work' = Rollback(work, committed)
          /\ committed' = Commit(Rollback(work, committed))
          /\ Exit(3, "privilege")
    /\ now' = now + 1
    /\ UNCHANGED <<inputVars, traceVars, files, fi, fileVars, totalVars,
                   outcome, stmts>>

\* load_products_from_file(path), the file being found in state `kind`:
\* [ok, data]. An unreadable file, invalid JSON and a root that is no list all
\* end in RuntimeError.
load_products_from_file(nm, kind) ==
    IF kind = "ok" THEN [ok |-> TRUE, data |-> fs[nm]]
    ELSE [ok |-> FALSE, data |-> << >>]

\* the loop with the read inside a try that skips a file it cannot load
LoadFileSkipsBad ==
    /\ pc = "loop"
    /\ fi < Len(files)
    /\ fi' = fi + 1
    /\ \E kind \in FileKinds :
         LET r == load_products_from_file(files[fi + 1], kind)
         IN  IF r.ok
             THEN /\ products' = r.data
                  /\ pc' = "validate"
                  /\ UNCHANGED outcome
             ELSE /\ outcome' = [outcome EXCEPT ![fi + 1] = "readfailed"]
                  /\ pc' = "loop"
                  /\ UNCHANGED products
    /\ UNCHANGED <<inputVars, traceVars, files, product_rows, image_rows,
                   bad_items, ci,
                   totalVars, stmts, exitCode, cause, dbVars>>

\* main, lines 203-204: the next file of the loop is read. RuntimeError leaves
\* `with conn` (a rollback) and reaches __main__, which exits 2.
LoadFile ==
    /\ pc = "loop"
    /\ fi < Len(files)
    /\ fi' = fi + 1
    /\ \E kind \in FileKinds :
         LET r == load_products_from_file(files[fi + 1], kind)
         IN  IF r.ok
             THEN /\ products' = r.data
                  /\ pc' = "validate"
                  /\ UNCHANGED <<exitCode, cause, outcome, dbVars>>
             ELSE /\ Exit(SystemExitCode("RuntimeError"), kind)
                  /\ outcome' = [outcome EXCEPT ![fi + 1] = "readfailed"]
                  /\ work' = Rollback(work, committed)
                  /\ now' = now + 1
                  /\ UNCHANGED <<products, committed>>
    /\ UNCHANGED <<inputVars, traceVars, files, product_rows, image_rows,
                   bad_items, ci,
                   totalVars, stmts>>

\* where main goes once the product chunks are through (line 237)
AfterProducts(norm, irows) ==
    IF norm /\ irows # << >> THEN "images" ELSE "commit"

\* main without the loop over the product chunks: once the rows are built it
\* goes on to the image chunks
ValidateFileSkipsProducts ==
    /\ pc = "validate"
    /\ LET v == Validate(products, Len(products), files[fi], normalize_images)
       IN  /\ product_rows' = v.product_rows
           /\ image_rows' = v.image_rows
           /\ bad_items' = v.bad_items
           /\ pc' = AfterProducts(normalize_images, v.image_rows)
    /\ ci' = 1
    /\ UNCHANGED <<inputVars, traceVars, files, fi, products, dbVars, totalVars,
                   exitCode, cause, outcome, stmts>>

\* main, lines 206-231: the rows of the file are built. The loops that follow
\* start at their first chunk; a loop over no chunk is skipped.
ValidateFile ==
    /\ pc = "validate"
    /\ LET v == Validate(products, Len(products), files[fi], normalize_images)
       IN  /\ product_rows' = v.product_rows
           /\ image_rows' = v.image_rows
           /\ bad_items' = v.bad_items
           /\ pc' = IF v.product_rows # << >> THEN "products"
                    ELSE AfterProducts(normalize_images, v.image_rows)
    /\ ci' = 1
    /\ UNCHANGED <<inputVars, traceVars, files, fi, products, dbVars,
                   totalVars, exitCode,
                   cause, outcome, stmts>>

\* the chunk loop with `total_products = upsert_products(cur, batch)`: the
\* total is overwritten by each chunk's count
UpsertProductsChunkOverwritesTotal ==
    /\ pc = "products"
    /\ LET batches == chunks(product_rows, BatchSize)
           r == upsert_products(work, batches[ci], now)
       IN  /\ work' = r.db
           /\ stmts' = stmts + r.stmts
           /\ IF r.ok
              THEN /\ total_products' = Len(batches[ci])
                   /\ ci' = IF ci < Len(batches) THEN ci + 1 ELSE 1
                   /\ pc' = IF ci < Len(batches) THEN "products"
                            ELSE AfterProducts(normalize_images, image_rows)
              ELSE /\ pc' = "except"
                   /\ UNCHANGED <<total_products, ci>>
    /\ UNCHANGED <<inputVars, traceVars, files, fi, products, product_rows,
                   image_rows, bad_items, committed, now, total_images,
                   exitCode, cause, outcome>>

\* main, lines 234-235: one chunk of product_rows is upserted; an exception
\* goes to the handler at line 243
UpsertProductsChunk ==
    /\ pc = "products"
    /\ LET batches == chunks(product_rows, BatchSize)
           r == upsert_products(work, batches[ci], now)
       IN  /\ work' = r.db
           /\ stmts' = stmts + r.stmts
           /\ IF r.ok
              THEN /\ total_products' = total_products + Len(batches[ci])
                   /\ ci' = IF ci < Len(batches) THEN ci + 1 ELSE 1
                   /\ pc' = IF ci < Len(batches) THEN "products"
                            ELSE AfterProducts(normalize_images, image_rows)
              ELSE /\ pc' = "except"
                   /\ UNCHANGED <<total_products, ci>>
    /\ UNCHANGED <<inputVars, traceVars, files, fi, products, product_rows,
                   image_rows,
                   bad_items, committed, now, total_images, exitCode, cause,
                   outcome>>

\* main, lines 238-239: one chunk of image_rows is upserted
UpsertImagesChunk ==
    /\ pc = "images"
    /\ LET batches == chunks(image_rows, ImageBatchSize)
           r == upsert_images(work, batches[ci])
       IN  /\ work' = r.db
           /\ stmts' = stmts + r.stmts
           /\ IF r.ok
              THEN /\ total_images' = total_images + Len(batches[ci])
                   /\ ci' = IF ci < Len(batches) THEN ci + 1 ELSE 1
                   /\ pc' = IF ci < Len(batches) THEN "images" ELSE "commit"
              ELSE /\ pc' = "except"
                   /\ UNCHANGED <<total_images, ci>>
    /\ UNCHANGED <<inputVars, traceVars, files, fi, products, product_rows,
                   image_rows,
                   bad_items, committed, now, total_products, exitCode, cause,
                   outcome>>

\* main, lines 241-242: conn.commit() for the file
CommitFile ==
    /\ pc = "commit"
    /\ committed' = Commit(work)
    /\ work' = work
    /\ now' = now + 1
    /\ outcome' = [outcome EXCEPT ![fi] = "committed"]
    /\ pc' = "loop"
    /\ UNCHANGED <<inputVars, traceVars, files, fi, fileVars, totalVars,
                   exitCode, cause,
                   stmts>>

\* the handler without its return: the file is rolled back and the loop goes on
RollbackFileContinues ==
    /\ pc = "except"
    /\ work' = Rollback(work, committed)
    /\ now' = now + 1
    /\ outcome' = [outcome EXCEPT ![fi] = "rolledback"]
    /\ pc' = "loop"
    /\ UNCHANGED <<inputVars, traceVars, files, fi, fileVars, totalVars,
                   stmts, committed,
                   exitCode, cause>>

\* the handler without conn.rollback(): return 3 leaves `with conn` with a
\* commit of what the failed file had written
RollbackFileNoRollback ==
    /\ pc = "except"
    /\ work' = work
    /\ committed' = Commit(work)
    /\ now' = now + 1
    /\ outcome' = [outcome EXCEPT ![fi] = "rolledback"]
    /\ Exit(3, "upsert")
    /\ UNCHANGED <<inputVars, traceVars, files, fi, fileVars, totalVars,
                   stmts>>

\* main, lines 243-246: conn.rollback() and return 3, which leaves `with
\* conn` with a commit of what the transaction then holds
RollbackFile ==
    /\ pc = "except"
    /\ work' = Rollback(work, committed)
    /\ committed' = Commit(Rollback(work, committed))
    /\ now' = now + 1
    /\ outcome' = [outcome EXCEPT ![fi] = "rolledback"]
    /\ Exit(3, "upsert")
    /\ UNCHANGED <<inputVars, traceVars, files, fi, fileVars, totalVars, stmts>>

\* main, lines 253-254: the loop is over; the totals are printed and main
\* returns 0
Finish ==
    /\ pc = "loop"
    /\ fi = Len(files)
    /\ committed' = Commit(work)
    /\ reports' = reports + 1
    /\ Exit(0, "ok")
    /\ UNCHANGED <<inputVars, conns, files, fi, fileVars, work, now, totalVars,
                   outcome, stmts>>

\* KeyboardInterrupt with the connection used outside `with`: nothing rolls
\* the open transaction back before the process exits
InterruptLeavesTransaction ==
    /\ pc \notin {"exit", "chunks", "chunked"}
    /\ work' = work
    /\ outcome' = outcome
    /\ Exit(SystemExitCode("KeyboardInterrupt"), "interrupt")
    /\ UNCHANGED <<inputVars, traceVars, files, fi, fileVars, committed, now,
                   totalVars, stmts>>

\* KeyboardInterrupt, at any point of main: it is no Exception, so only
\* `with conn` (a rollback, once connected) and __main__'s handler at line 266
\* see it
Interrupt ==
    /\ pc \notin {"exit", "chunks", "chunked"}
    /\ work' = Rollback(work, committed)
    /\ outcome' = [k \in DOMAIN outcome |->
                     IF k = fi /\ outcome[k] = "pending" THEN "rolledback"
                     ELSE outcome[k]]
    /\ Exit(SystemExitCode("KeyboardInterrupt"), "interrupt")
    /\ UNCHANGED <<inputVars, traceVars, files, fi, fileVars, committed, now,
                   totalVars,
                   stmts>>

Next ==
    \/ Discover
    \/ LoadConfig
    \/ Connect
    \/ CreateTables
    \/ LoadFile
    \/ ValidateFile
    \/ UpsertProductsChunk
    \/ UpsertImagesChunk
    \/ CommitFile
    \/ RollbackFile
    \/ Finish
    \/ Interrupt

Spec == Init /\ [][Next]_vars

(* ------------------- files with many image rows ------------------------ *)

\* JSON objects with three usable images each, so that the image rows of one
\* file fill more than one chunk of ImageBatchSize rows
ImageItems ==
    { Item(IdInt(1), "a", ImgList(<<Url("u1"), Url("u2"), Url("u3")>>)),
      Item(IdInt(2), "a", ImgList(<<Url("u1"), Url("u2"), Url("u3")>>)),
      Item(IdInt(2), "b", ImgList(<<Url("u4"), UrlNull, Url("u5")>>)) }

\* files made of ImageItems, loaded with normalize_images set
InitImages == InitFrom(ImageItems, {TRUE})

SpecImages == InitImages /\ [][Next]_vars

(* ------------------------ the program run again ------------------------ *)

\* __main__, lines 257-259, a second time: after a run that exited 0 the
\* program is started again on the same path, the same files and the same
\* database. main's variables are fresh; the new connection sees the
\* committed tables.
Rerun ==
    /\ pc = "exit"
    /\ exitCode = 0
    /\ run = 1
    /\ run' = 2
    /\ initial' = committed
    /\ work' = committed
    /\ pc' = "start"
    /\ files' = << >>
    /\ fi' = 0
    /\ products' = << >>
    /\ product_rows' = << >>
    /\ image_rows' = << >>
    /\ bad_items' = 0
    /\ ci' = 0
    /\ total_products' = 0
    /\ total_images' = 0
    /\ exitCode' = -1
    /\ cause' = "running"
    /\ outcome' = << >>
    /\ stmts' = 0
    /\ conns' = 0
    /\ reports' = 0
    /\ UNCHANGED <<dataPath, fs, normalize_images, cIn, cOut, committed, now,
                   uIn, uOut>>

NextRerun ==
    \/ Next
    \/ Rerun

SpecRerun == Init /\ [][NextRerun]_vars

(* ----------------------- chunks(), run on its own ----------------------- *)

\* chunks is given any sequence of at most MaxSeqLen items and any size from 1
\* to MaxChunkSize; main does not run
InitChunks ==
    /\ \E n \in 0..MaxSeqLen :
         \E seq \in [1..n -> {"x", "y"}], size \in 1..MaxChunkSize :
            cIn = [seq |-> seq, size |-> size]
    /\ cOut = << >>
    /\ pc = "chunks"
    /\ dataPath = "missing"
    /\ fs = << >>
    /\ normalize_images = FALSE
    /\ files = << >>
    /\ fi = 0
    /\ products = << >>
    /\ product_rows = << >>
    /\ image_rows = << >>
    /\ bad_items = 0
    /\ ci = 0
    /\ work = EmptyDB
    /\ committed = EmptyDB
    /\ initial = EmptyDB
    /\ now = 1
    /\ total_products = 0
    /\ total_images = 0
    /\ exitCode = -1
    /\ cause = "running"
    /\ outcome = << >>
    /\ stmts = 0
    /\ conns = 0
    /\ reports = 0
    /\ run = 1
    /\ uIn = NoUpsertInput
    /\ uOut = << >>

\* the generator is run to its end
ApplyChunks ==
    /\ pc = "chunks"
    /\ cOut' = chunks(cIn.seq, cIn.size)
    /\ pc' = "chunked"
    /\ UNCHANGED <<dataPath, fs, normalize_images, files, fi, fileVars, dbVars,
                   totalVars, exitCode, cause, outcome, stmts, initial, cIn,
                   traceVars, run, uIn, uOut>>

NextChunks == ApplyChunks

SpecChunks == InitChunks /\ [][NextChunks]_vars

(* ------------------ the product upsert, run on its own ----------------- *)

\* the product rows the valid records of Items give
ProductRowPool ==
    {ProductRow(item, <<1>>) : item \in {i \in Items : IntCoerce(i.id).ok}}

\* main's loop `for batch in chunks(product_rows, batch_size):
\* upsert_products(cur, batch, page_size)` over the first n chunks, stopping
\* at the call that raises: [ok, db]
RECURSIVE PagedChunksEffect(_, _, _, _, _)
PagedChunksEffect(db, batches, n, t, page_size) ==
    IF n = 0 THEN [ok |-> TRUE, db |-> db]
    ELSE LET before == PagedChunksEffect(db, batches, n - 1, t, page_size)
             r == upsert_products_paged(before.db, batches[n], t, page_size)
         IN  IF before.ok THEN [ok |-> r.ok, db |-> r.db] ELSE before

\* the outcome of upserting rows with the given sizes on the tables db:
\* whether every statement succeeded, and the products table that results
UpsertOutcome(db, rows, t, sizes) ==
    LET r == PagedChunksEffect(db, chunks(rows, sizes.chunk),
                               Len(chunks(rows, sizes.chunk)), t, sizes.page)
    IN  [ok |-> r.ok, products |-> r.db.products]

\* the upsert is given any sequence of at most MaxRows product rows and two
\* settings of chunk size and page size, on the tables an earlier run has
\* left; main does not run
InitPaging ==
    /\ \E n \in 0..MaxRows :
         \E rows \in [1..n -> ProductRowPool],
            ca \in 1..MaxPageSize, pa \in 1..MaxPageSize,
            cb \in 1..MaxPageSize, pb \in 1..MaxPageSize :
            uIn = [rows |-> rows, a |-> Sizes(ca, pa), b |-> Sizes(cb, pb)]
    /\ uOut = << >>
    /\ pc = "paging"
    /\ cIn = NoChunkInput
    /\ cOut = << >>
    /\ dataPath = "missing"
    /\ fs = << >>
    /\ normalize_images = FALSE
    /\ files = << >>
    /\ fi = 0
    /\ products = << >>
    /\ product_rows = << >>
    /\ image_rows = << >>
    /\ bad_items = 0
    /\ ci = 0
    /\ work = SeededDB
    /\ committed = SeededDB
    /\ initial = SeededDB
    /\ now = 1
    /\ total_products = 0
    /\ total_images = 0
    /\ exitCode = -1
    /\ cause = "running"
    /\ outcome = << >>
    /\ stmts = 0
    /\ conns = 0
    /\ reports = 0
    /\ run = 1

\* the rows are upserted under each of the two settings
ApplyUpserts ==
    /\ pc = "paging"
    /\ uOut' = [a |-> UpsertOutcome(work, uIn.rows, now, uIn.a),
                b |-> UpsertOutcome(work, uIn.rows, now, uIn.b)]
    /\ pc' = "paged"
    /\ UNCHANGED <<dataPath, fs, normalize_images, files, fi, fileVars, dbVars,
                   totalVars, exitCode, cause, outcome, stmts, initial, cIn,
                   cOut, traceVars, run, uIn>>

NextPaging == ApplyUpserts

SpecPaging == InitPaging /\ [][NextPaging]_vars

(* ------------------------ what the run has applied --------------------- *)

\* the rows file j of `files` gives, in the order of its items
RowsOfFile(j) ==
    Validate(fs[files[j]], Len(fs[files[j]]), files[j], normalize_images)

\* the product rows of the committed files among the first j, in order
RECURSIVE CommittedProductRows(_)
CommittedProductRows(j) ==
    IF j = 0 THEN << >>
    ELSE CommittedProductRows(j - 1)
         \o (IF outcome[j] = "committed" THEN RowsOfFile(j).product_rows
             ELSE << >>)

\* the product rows of the file in progress whose upsert has succeeded
CurrentProductRows ==
    IF pc = "products" THEN SubSeq(product_rows, 1, (ci - 1) * BatchSize)
    ELSE IF pc \in {"images", "commit"} THEN product_rows
    ELSE << >>

\* every product row upserted so far and not rolled back, oldest first: the
\* row of the earlier run, the committed files, the file in progress
AppliedProductRows ==
    <<SeedRow>> \o CommittedProductRows(Len(files)) \o CurrentProductRows

\* the last row of `rows` with this id
LastRowFor(id, rows) ==
    rows[CHOOSE k \in 1..Len(rows) :
            /\ rows[k].id = id
            /\ \A l \in (k + 1)..Len(rows) : rows[l].id # id]

\* a stored row without its ingestion timestamp
Unstamped(r) ==
    [id |-> r.id, name |-> r.name, url_key |-> r.url_key, price |-> r.price,
     description |-> r.description, images |-> r.images,
     source_file |-> r.source_file]

(* ------------------------------- claims -------------------------------- *)

\* C1: whatever upsert_products calls have been applied (by the earlier run,
\* the files committed in this one and the chunks of the file in progress,
\* calls that were rolled back not counting), the products table the
\* transaction sees holds exactly one row for each id upserted, no row for any
\* other id, and that row carries the fields, images blob and source file of
\* the last upsert applied for the id.
C1_LastUpsertWins ==
    pc # "except" =>
        LET applied == AppliedProductRows
        IN  /\ \A r \in work.products :
                 \E k \in 1..Len(applied) : applied[k].id = r.id
            /\ \A k \in 1..Len(applied) :
                 LET id == applied[k].id
                 IN  /\ Cardinality({r \in work.products : r.id = id}) = 1
                     /\ \A r \in work.products :
                          r.id = id => Unstamped(r) = LastRowFor(id, applied)

\* C1 witness: an id has been upserted twice with different values, and both
\* upserts stand
C1_Witness ==
    /\ pc \in {"products", "images", "commit", "loop"}
    /\ \E k, l \in 2..Len(AppliedProductRows) :
         /\ k < l
         /\ AppliedProductRows[k].id = AppliedProductRows[l].id
         /\ AppliedProductRows[k].name # AppliedProductRows[l].name

\* the positions of the image rows one item gives
PositionsOf(item) ==
    {k - 1 : k \in {x \in 1..Len(GetImages(item).v) : Truthy(GetImages(item).v[x])}}

\* C2: with normalize_images set, once a file has committed in which a product
\* occurs once, no committed image row of that product has a position that
\* the product's images list in that file does not have.
C2_NoStaleImageRows ==
    (normalize_images /\ pc = "loop" /\ fi > 0 /\ outcome[fi] = "committed") =>
        \A k \in 1..Len(products) :
            (/\ IntCoerce(products[k].id).ok
             /\ \A l \in 1..Len(products) :
                  (l # k /\ IntCoerce(products[l].id).ok)
                      => IntCoerce(products[l].id).v # IntCoerce(products[k].id).v)
            => \A r \in committed.images :
                   r.product_id = IntCoerce(products[k].id).v
                       => r.position \in PositionsOf(products[k])

\* the files after file k have been processed to the end of their transaction
LaterFilesProcessed(k) ==
    \A j \in DOMAIN outcome : j > k => outcome[j] \in {"committed", "rolledback"}

\* the files after file k have not been opened
LaterFilesUntouched(k) ==
    \A j \in DOMAIN outcome : j > k => outcome[j] = "pending"

RECURSIVE ProductChunksEffect(_, _, _, _)
ProductChunksEffect(db, batches, n, t) ==
    IF n = 0 THEN [ok |-> TRUE, db |-> db]
    ELSE LET before == ProductChunksEffect(db, batches, n - 1, t)
             r == upsert_products(before.db, batches[n], t)
         IN  IF before.ok THEN [ok |-> r.ok, db |-> r.db] ELSE before

\* every image chunk of the first n, upserted in order: [ok, db]
RECURSIVE ImageChunksEffect(_, _, _)
ImageChunksEffect(db, batches, n) ==
    IF n = 0 THEN [ok |-> TRUE, db |-> db]
    ELSE LET before == ImageChunksEffect(db, batches, n - 1)
             r == upsert_images(before.db, batches[n])
         IN  IF before.ok THEN [ok |-> r.ok, db |-> r.db] ELSE before

\* all the upserts of one file, applied to db: [ok, db]
FileEffect(db, prows, irows, norm, t) ==
    LET p == ProductChunksEffect(db, chunks(prows, BatchSize),
                                 Len(chunks(prows, BatchSize)), t)
    IN  IF p.ok /\ norm /\ irows # << >>
        THEN ImageChunksEffect(p.db, chunks(irows, ImageBatchSize),
                               Len(chunks(irows, ImageBatchSize)))
        ELSE p

\* C5: the committed tables change only by the commit of a file, and then by
\* the effect of all of that file's product chunks and image chunks, every one
\* of them having succeeded: no step commits a part of a file.
C5_AllOrNothing ==
    [][committed' # committed =>
          /\ pc = "commit"
          /\ FileEffect(committed, product_rows, image_rows,
                        normalize_images, now).ok
          /\ committed' = FileEffect(committed, product_rows, image_rows,
                                     normalize_images, now).db]_vars

\* C5 witness: the first file's upserts failed after a chunk of it had been
\* applied, and the run has ended
C5_Witness ==
    pc = "exit" /\ cause = "upsert" /\ fi = 1 /\ total_products > 0

\* lexicographic order of two names
RECURSIVE LexBefore(_, _)
LexBefore(a, b) ==
    IF b = << >> THEN FALSE
    ELSE IF a = << >> THEN TRUE
    ELSE IF Head(a) # Head(b) THEN Head(a) < Head(b)
    ELSE LexBefore(Tail(a), Tail(b))

\* the file of this name has committed
HasCommitted(nm) ==
    \E j \in 1..Len(files) : files[j] = nm /\ outcome[j] = "committed"

\* the ids of the valid records of the file of this name
IdsOfFile(nm) ==
    {fs[nm][k].id.n : k \in {x \in 1..Len(fs[nm]) : fs[nm][x].id.t \in {"int", "numstr"}}}

\* the product rows the file of this name gives
ProductRowsOfName(nm) ==
    Validate(fs[nm], Len(fs[nm]), nm, normalize_images).product_rows

\* C6: for two files A < B (lexicographically) that have both committed and
\* both hold a valid record with the same id, while no committed file after B
\* holds that id, the committed row of the id is the one B's last record of
\* the id gives: B's field values and B's name as source_file.
C6_LaterFileWins ==
    \A A \in DOMAIN fs, B \in DOMAIN fs :
        (/\ files # << >>
         /\ LexBefore(A, B)
         /\ HasCommitted(A)
         /\ HasCommitted(B))
        => \A id \in IdsOfFile(A) \cap IdsOfFile(B) :
              (\A C \in DOMAIN fs :
                   (LexBefore(B, C) /\ HasCommitted(C)) => id \notin IdsOfFile(C))
              => /\ \E r \in committed.products : r.id = id
                 /\ \A r \in committed.products :
                      r.id = id =>
                        Unstamped(r) = LastRowFor(id, ProductRowsOfName(B))

\* C6 witness: two files with different data for one id have both committed
C6_Witness ==
    \E A \in DOMAIN fs, B \in DOMAIN fs :
        /\ files # << >>
        /\ LexBefore(A, B)
        /\ HasCommitted(A)
        /\ HasCommitted(B)
        /\ \E id \in IdsOfFile(A) \cap IdsOfFile(B) :
             LastRowFor(id, ProductRowsOfName(A)).name
                 # LastRowFor(id, ProductRowsOfName(B)).name

\* the exit status the interface gives each way a run can end, cancellation
\* by the user being given `cancelled`
StatusFor(why, cancelled) ==
    CASE why = "ok" -> 0
      [] why \in {"path", "unreadable", "malformed", "notlist"} -> 2
      [] why = "interrupt" -> cancelled
      [] why \in {"connect", "privilege", "upsert"} -> 3
      [] OTHER -> 4

\* every file of the run has committed
AllCommitted == \A k \in DOMAIN outcome : outcome[k] = "committed"

\* C7 as stated: the exit status is 0 exactly when every file committed with
\* no error, 2 for a bad path, malformed JSON or cancellation by the user, 3
\* for a database failure and 4 for any other failure.
C7_ExitStatusAsStated ==
    pc = "exit" =>
        /\ exitCode = StatusFor(cause, 2)
        /\ exitCode = 0 <=> (cause = "ok" /\ AllCommitted)

\* C7 amended: the same, except that cancellation by the user exits 130.
C7_ExitStatus ==
    pc = "exit" =>
        /\ exitCode = StatusFor(cause, 130)
        /\ exitCode = 0 <=> (cause = "ok" /\ AllCommitted)

\* C7 witness: the run was cancelled while a file was being upserted
C7_Witness ==
    pc = "exit" /\ cause = "interrupt" /\ fi > 0 /\ work = committed

\* the concatenation of the first n chunks
RECURSIVE Concat(_, _)
Concat(cs, n) == IF n = 0 THEN << >> ELSE Concat(cs, n - 1) \o cs[n]

\* C8: chunks of N items at size S yields ceil(N/S) chunks (none for N = 0),
\* each of length S except the last, whose length is between 1 and S, and
\* the chunks concatenated in order are the input.
C8_ChunksPartition ==
    pc = "chunked" =>
        LET N == Len(cIn.seq)
            S == cIn.size
        IN  /\ Len(cOut) = (N + S - 1) \div S
            /\ \A k \in 1..(Len(cOut) - 1) : Len(cOut[k]) = S
            /\ Len(cOut) > 0 =>
                 (Len(cOut[Len(cOut)]) >= 1 /\ Len(cOut[Len(cOut)]) <= S)
            /\ Concat(cOut, Len(cOut)) = cIn.seq

\* C8 witness: several chunks, the last one shorter
C8_Witness ==
    /\ pc = "chunked"
    /\ Len(cOut) > 2
    /\ Len(cOut[Len(cOut)]) < cIn.size
    /\ cIn.size > 1

\* an item whose id is an integer or a string of digits
HasIntegerId(item) == item.id.t \in {"int", "numstr"}

\* C9: in a file being upserted, the rejected items are counted, the product
\* rows are those of the other items in their order, and a file of rejected
\* items only goes straight to its commit; at the commit every other item's
\* id has a row; and no row stored by this run comes from a rejected item.
C9_RejectedItemsSkipped ==
    /\ pc \in {"products", "images", "commit", "except"} =>
         LET good == SelectSeq(products, HasIntegerId)
         IN  /\ bad_items = Len(products) - Len(good)
             /\ Len(product_rows) = Len(good)
             /\ \A k \in 1..Len(good) :
                  /\ product_rows[k].id = good[k].id.n
                  /\ product_rows[k].name = good[k].name
                  /\ product_rows[k].source_file = files[fi]
             /\ good = << >> => pc = "commit"
             /\ pc = "commit" =>
                  \A k \in 1..Len(good) :
                      \E r \in work.products : r.id = good[k].id.n
    /\ \A r \in (committed.products \cup work.products) \ initial.products :
         \E nm \in DOMAIN fs : \E k \in 1..Len(fs[nm]) :
            /\ HasIntegerId(fs[nm][k])
            /\ r.id = fs[nm][k].id.n
            /\ r.name = fs[nm][k].name
            /\ r.source_file = nm

\* C9 witness: a run has exited 0 whose last file had a rejected item before
\* a valid one
C9_Witness ==
    /\ pc = "exit"
    /\ exitCode = 0
    /\ \E k, l \in 1..Len(products) :
         k < l /\ ~HasIntegerId(products[k]) /\ HasIntegerId(products[l])
    /\ \E r \in committed.products : r.source_file = files[fi]

\* C10: when table creation was denied, the exit status is 3, no file has
\* been opened, no statement has been issued, and the tables are what they
\* were when the run started.
C10_PrivilegeDeniedTouchesNothing ==
    cause = "privilege" =>
        /\ pc = "exit"
        /\ exitCode = 3
        /\ fi = 0
        /\ stmts = 0
        /\ total_products = 0
        /\ total_images = 0
        /\ \A k \in DOMAIN outcome : outcome[k] = "pending"
        /\ committed = initial
        /\ work = initial

\* C10 witness: table creation was denied with files waiting
C10_Witness ==
    cause = "privilege" /\ Len(files) > 0

\* the inputs on which iter_product_files raises FileNotFoundError: the path
\* does not exist (line 71), or it is a directory in which the glob finds
\* nothing (line 78)
DiscoveryFails ==
    \/ dataPath = "missing"
    \/ dataPath = "dir" /\ DOMAIN fs = {}

\* C11: when the input path does not exist, or is a directory with no file
\* products_*.json, the run never opens a database connection, never issues a
\* statement and never opens a file, the tables stay what they were, and the
\* run ends with exit status 2 (or 130 if it is cancelled before that); the
\* run ends on a path error only on such an input.
C11_PathErrorBeforeDatabase ==
    /\ DiscoveryFails =>
         /\ pc \in {"start", "exit"}
         /\ conns = 0
         /\ stmts = 0
         /\ fi = 0
         /\ work = initial
         /\ committed = initial
         /\ pc = "exit" =>
              \/ cause = "path" /\ exitCode = 2
              \/ cause = "interrupt" /\ exitCode = 130
    /\ cause = "path" => DiscoveryFails

\* C11 witness: the run has ended on a directory that holds no matching file
C11_Witness ==
    pc = "exit" /\ cause = "path" /\ dataPath = "dir" /\ exitCode = 2

\* the rows of the products table without their ingestion timestamps
UnstampedRows(table) == {Unstamped(r) : r \in table}

\* C12: when the program is run a second time over the same files and that
\* run too exits 0, the committed tables are what the first run left: the
\* same number of product rows with the same fields, images blob and source
\* file (the ingestion timestamp aside), and the same image rows.
C12_SecondRunChangesNothing ==
    (run = 2 /\ pc = "exit" /\ exitCode = 0) =>
        /\ UnstampedRows(committed.products) = UnstampedRows(initial.products)
        /\ Cardinality(committed.products) = Cardinality(initial.products)
        /\ committed.images = initial.images

\* C12 witness: a second run with normalize_images set has exited 0 over two
\* files that hold different data for one id; it issued statements, rewrote
\* a row the first run had written, and image rows are stored
C12_Witness ==
    /\ run = 2
    /\ pc = "exit"
    /\ exitCode = 0
    /\ normalize_images
    /\ Len(files) = 2
    /\ stmts > 1
    /\ \E id \in IdsOfFile(files[1]) \cap IdsOfFile(files[2]) :
         LastRowFor(id, ProductRowsOfName(files[1])).name
             # LastRowFor(id, ProductRowsOfName(files[2])).name
    /\ \E r \in committed.products, q \in initial.products :
         r.id = q.id /\ r.ingested_at > q.ingested_at
    /\ committed.images # {}

\* the image rows one record gives, as a set
DerivedImageRows(item) ==
    LET imgs == GetImages(item)
        pid == IntCoerce(item.id).v
    IN  IF imgs.t = "list"
        THEN {ImageRowsOf(pid, imgs.v, Len(imgs.v))[k] :
                 k \in 1..Len(ImageRowsOf(pid, imgs.v, Len(imgs.v)))}
        ELSE {}

\* the record at index k of the current file is valid and no other valid
\* record of the file has its id
DistinctValidRecord(k) ==
    /\ IntCoerce(products[k].id).ok
    /\ \A l \in 1..Len(products) :
         (l # k /\ IntCoerce(products[l].id).ok)
             => IntCoerce(products[l].id).v # IntCoerce(products[k].id).v

\* C13: with normalize_images set, once a file has committed, for every valid
\* record of it with an id no other record of the file has, and whose images
\* list gives at least one row, the committed image rows of that product are
\* exactly the rows (id, position, url) the record's images list gives.
C13_ImageRowsAsDerived ==
    (normalize_images /\ pc = "loop" /\ fi > 0 /\ outcome[fi] = "committed") =>
        \A k \in 1..Len(products) :
            (DistinctValidRecord(k) /\ DerivedImageRows(products[k]) # {})
            => {r \in committed.images :
                    r.product_id = IntCoerce(products[k].id).v}
               = DerivedImageRows(products[k])

\* the committed tables once the first j files have each committed: the
\* effect of their upserts on the tables the run started with. The
\* transaction of file j starts at time j + 1 (table creation is at time 1).
RECURSIVE EffectOfFiles(_)
EffectOfFiles(j) ==
    IF j = 0 THEN initial
    ELSE FileEffect(EffectOfFiles(j - 1), RowsOfFile(j).product_rows,
                    RowsOfFile(j).image_rows, normalize_images, j + 1).db

\* the ways a run ends because a file could not be read
ReadFailures == {"unreadable", "malformed", "notlist"}

\* C14: whenever the loop is between two files, the committed tables are the
\* effect of the files committed so far; and when reading or upserting file
\* k has failed, every file before k has committed and the committed tables
\* are still exactly that effect of the files before k: what they were when
\* file k-1's transaction resolved.
C14_FailureKeepsEarlierFiles ==
    /\ (pc = "loop" /\ run = 1) => committed = EffectOfFiles(fi)
    /\ (pc = "exit" /\ run = 1 /\ cause \in ReadFailures \cup {"upsert"}) =>
         /\ fi >= 1
         /\ \A j \in 1..(fi - 1) : outcome[j] = "committed"
         /\ outcome[fi] \in {"readfailed", "rolledback"}
         /\ committed = EffectOfFiles(fi - 1)

\* C14 witness: the upsert of the second file has failed after the first file
\* had committed rows
C14_Witness ==
    /\ pc = "exit"
    /\ cause = "upsert"
    /\ fi = 2
    /\ outcome[1] = "committed"
    /\ committed # initial

\* C15: whenever main is between two files (about to read the next one or to
\* finish) or the run has ended, the transaction holds no uncommitted write:
\* the tables it sees are the committed ones. Between two files every file
\* opened so far has committed, and at the end of the run, however it ended,
\* no file that was opened is still pending.
C15_TransactionResolved ==
    /\ pc \in {"loop", "exit"} => work = committed
    /\ pc = "loop" => \A j \in 1..fi : outcome[j] = "committed"
    /\ pc = "exit" =>
         \A j \in DOMAIN outcome : j <= fi => outcome[j] # "pending"

\* C15 witness: the run was interrupted while the first file was being
\* upserted, after a chunk of it had been written, and has ended with that
\* file rolled back
C15_Witness ==
    /\ pc = "exit"
    /\ cause = "interrupt"
    /\ fi = 1
    /\ total_products > 0
    /\ outcome[1] = "rolledback"
    /\ committed = initial

\* the entries of the images list of the record at index k of the current file
ImagesAt(k) == GetImages(products[k]).v

\* the record at index k of the current file is valid and its images field
\* is a list
HasImageList(k) ==
    IntCoerce(products[k].id).ok /\ GetImages(products[k]).t = "list"

\* the number of truthy entries in the images lists of the first k records
\* that are valid
RECURSIVE TruthyEntries(_)
TruthyEntries(k) ==
    IF k = 0 THEN 0
    ELSE TruthyEntries(k - 1)
         + (IF HasImageList(k)
            THEN Cardinality({x \in 1..Len(ImagesAt(k)) : Truthy(ImagesAt(k)[x])})
            ELSE 0)

\* C16: with normalize_images set, the image rows built from a file are one
\* row per truthy entry of the images lists of its valid records: each row
\* carries the record's id, the zero-based index the entry has in the list as
\* it stands in the file, and the entry's text; an entry that is null or
\* empty gives no row at its index, and the indices of the entries after it
\* are not shifted.
C16_PositionIsOriginalIndex ==
    (normalize_images /\ pc \in {"products", "images", "commit", "except"}) =>
        /\ Len(image_rows) = TruthyEntries(Len(products))
        /\ \A i \in 1..Len(image_rows) :
             \E k \in 1..Len(products) :
                /\ HasImageList(k)
                /\ image_rows[i].product_id = IntCoerce(products[k].id).v
                /\ image_rows[i].position \in 0..(Len(ImagesAt(k)) - 1)
                /\ Truthy(ImagesAt(k)[image_rows[i].position + 1])
                /\ image_rows[i].image_url
                       = Str(ImagesAt(k)[image_rows[i].position + 1])
        /\ \A k \in 1..Len(products) :
             HasImageList(k) =>
                \A x \in 1..Len(ImagesAt(k)) :
                    Truthy(ImagesAt(k)[x]) =>
                        \E i \in 1..Len(image_rows) :
                            /\ image_rows[i].product_id
                                   = IntCoerce(products[k].id).v
                            /\ image_rows[i].position = x - 1
                            /\ image_rows[i].image_url = Str(ImagesAt(k)[x])
        /\ \A k \in 1..Len(products) :
             (HasImageList(k) /\ DistinctValidRecord(k)) =>
                \A x \in 1..Len(ImagesAt(k)) :
                    ~Truthy(ImagesAt(k)[x]) =>
                        \A i \in 1..Len(image_rows) :
                            ~(/\ image_rows[i].product_id
                                    = IntCoerce(products[k].id).v
                              /\ image_rows[i].position = x - 1)

\* C16 witness: the rows of a file have been built in which a valid record
\* has a falsy entry before a truthy one, and the row of the truthy entry is
\* there at its index in the list
C16_Witness ==
    /\ normalize_images
    /\ pc = "images"
    /\ \E k \in 1..Len(products) :
         /\ HasImageList(k)
         /\ \E x, y \in 1..Len(ImagesAt(k)) :
              /\ x < y
              /\ ~Truthy(ImagesAt(k)[x])
              /\ Truthy(ImagesAt(k)[y])
              /\ \E i \in 1..Len(image_rows) :
                   /\ image_rows[i].product_id = IntCoerce(products[k].id).v
                   /\ image_rows[i].position = y - 1

\* the product rows and the image rows the first j files give, counted
RECURSIVE SubmittedRows(_)
SubmittedRows(j) ==
    IF j = 0 THEN [products |-> 0, images |-> 0]
    ELSE [products |-> SubmittedRows(j - 1).products
                          + Len(RowsOfFile(j).product_rows),
          images |-> SubmittedRows(j - 1).images
                        + Len(RowsOfFile(j).image_rows)]

C18_SameOutcomeForEverySize ==
    pc = "paged" => uOut.a = uOut.b

\* every image row of the tables db belongs to a product row of db
ImagesHaveProducts(db) ==
    \A r \in db.images : \E q \in db.products : q.id = r.product_id

\* C19: in the committed tables, and in the tables the open transaction sees,
\* every image row's product id is the id of a stored product row; and when
\* main comes to a file's image chunks, the product of every image row of
\* the file is already stored, the product chunks having been upserted
\* before in the same transaction.
C19_ImagesReferToProducts ==
    /\ ImagesHaveProducts(committed)
    /\ ImagesHaveProducts(work)
    /\ pc = "images" =>
         \A i \in 1..Len(image_rows) :
            \E q \in work.products : q.id = image_rows[i].product_id

\* C19 witness: a file has committed image rows for a product the tables did
\* not hold when the run started
C19_Witness ==
    /\ pc = "loop"
    /\ fi > 0
    /\ outcome[fi] = "committed"
    /\ \E r \in committed.images :
         \A q \in initial.products : q.id # r.product_id


=============================================================================
